---- MODULE Spec2Model ----
(***************************************************************************)
(* Model of src/src/connection.rs: the framed connection over a TCP        *)
(* stream (Connection::new, read_frame, parse_frame, write_frame).         *)
(*                                                                         *)
(* Bytes are their ASCII codes.  A frame is a record                       *)
(*   [kind, bytes, num, items]                                             *)
(* with kind in Simple / Error / Integer / Null / Bulk / Array.            *)
(***************************************************************************)
EXTENDS Integers, Sequences, FiniteSets, TLC

VARIABLES
    buffer,      \* Connection.buffer: the bytes of the BytesMut (its len is Len(buffer))
    capacity,    \* allocated capacity of Connection.buffer (BytesMut::capacity)
    offset,      \* bytes of the buffer's allocation that lie before its start (advanced past)
    cursor,      \* Connection.cursor
    rpc,         \* position of the read_frame call: "idle" or "reading" (at the read await)
    rresults,    \* what the completed read_frame calls returned, in order
    lastCheck,   \* the last call of Frame::check: bytes it was given, cursor at that time
    stream,      \* every byte the peer is going to send on this connection
    sentUnits,   \* the frames stream encodes (empty for a malformed or truncated stream)
    nsent,       \* how many bytes have been handed to the socket so far
    split,       \* the bytes handed to the socket arrived in more than one delivery
    sock,        \* bytes delivered to the socket and not yet read by the connection
    peerClosed,  \* the peer has closed its write side
    wbuf,        \* bytes pending inside BufWriter (Connection.stream)
    wire,        \* bytes the underlying TcpStream has accepted
    wcall,       \* the write_frame call that is running, or NoCall
    shortWrites, \* how many writes the TcpStream accepted only in part
    wresults,    \* what the completed write_frame calls did, in order
    build        \* how the program was built and where it runs: with overflow checks or
                 \* not, and the number of frames the allocator can give to one Vec

vars == <<buffer, capacity, offset, cursor, rpc, rresults, lastCheck, stream, sentUnits,
          nsent, split, sock, peerClosed, wbuf, wire, wcall, shortWrites, wresults,
          build>>

readerVars == <<buffer, capacity, offset, cursor, rpc, rresults, lastCheck>>
peerVars == <<stream, sentUnits, nsent, split, sock, peerClosed>>
writerVars == <<wbuf, wire, wcall, shortWrites, wresults>>
envVars == <<build>>

----------------------------------------------------------------------------
(* Bounds of the model *)

\* read_frame calls made on one connection
MaxReads == 2
\* write_frame calls made on one connection
MaxWrites == 2
\* streams up to this length are delivered in chunks of every size, and of so many
\* bytes offered to the TcpStream every number may be accepted
MaxFine == 16
\* writes the TcpStream accepts only in part, on one connection
MaxShort == 1
\* bytes one connection is given to write: as many as the encoding of a bulk whose
\* payload fills the writer's internal buffer
MaxOutput == 8201
\* write_frame calls made on a connection whose output is read back
MaxLoopWrites == 1
\* frames the allocator can give to one Vec: none on a machine out of memory, and on
\* a large one every count below 2^31 - 1
LowMemory == 0
HighMemory == 2147483646

----------------------------------------------------------------------------
(* Small helpers *)

Min(a, b) == IF a <= b THEN a ELSE b
Max(a, b) == IF a >= b THEN a ELSE b

CRLF == <<13, 10>>

Drop(s, n) == SubSeq(s, n + 1, Len(s))
Take(s, n) == SubSeq(s, 1, n)

Zeros(n) == [i \in 1..n |-> 0]

Frame(k, b, n, it) == [kind |-> k, bytes |-> b, num |-> n, items |-> it]
NoFrame == Frame("None", <<>>, 0, <<>>)
Simple(t) == Frame("Simple", t, 0, <<>>)
Error(t) == Frame("Error", t, 0, <<>>)
Integer(n) == Frame("Integer", <<>>, n, <<>>)
Null == Frame("Null", <<>>, 0, <<>>)
Bulk(b) == Frame("Bulk", b, 0, <<>>)
Array(it) == Frame("Array", <<>>, 0, it)

----------------------------------------------------------------------------
(* The protocol codec the read path calls: mini_redis::Frame::check and     *)
(* Frame::parse over a cursor into the byte window.  A position p is the    *)
(* number of bytes already consumed from the window b.                      *)

IsDigit(c) == c >= 48 /\ c <= 57

\* the line ending at the "\r\n" found at index j
LineEndingAt(b, p, j) == [st |-> "ok", line |-> SubSeq(b, p + 1, j - 1), pos |-> j + 1]

\* status and position of a line or a decimal
StPos(l) == [st |-> l.st, pos |-> l.pos]

\* the i-th byte of s is in lo..hi
ByteIn(s, i, lo, hi) == i <= Len(s) /\ s[i] >= lo /\ s[i] <= hi

\* length of the well-formed UTF-8 sequence that starts at s[i], 0 when there is none
Utf8Width(s, i) ==
    CASE s[i] <= 127 -> 1
      [] s[i] >= 194 /\ s[i] <= 223 -> IF ByteIn(s, i + 1, 128, 191) THEN 2 ELSE 0
      [] s[i] >= 224 /\ s[i] <= 239 ->
           IF /\ ByteIn(s, i + 1, IF s[i] = 224 THEN 160 ELSE 128, IF s[i] = 237 THEN 159 ELSE 191)
              /\ ByteIn(s, i + 2, 128, 191)
           THEN 3 ELSE 0
      [] s[i] >= 240 /\ s[i] <= 244 ->
           IF /\ ByteIn(s, i + 1, IF s[i] = 240 THEN 144 ELSE 128, IF s[i] = 244 THEN 143 ELSE 191)
              /\ ByteIn(s, i + 2, 128, 191)
              /\ ByteIn(s, i + 3, 128, 191)
           THEN 4 ELSE 0
      [] OTHER -> 0

\* String::from_utf8 succeeds on the bytes of s from the i-th on
RECURSIVE IsUtf8(_, _)
IsUtf8(s, i) ==
    IF i > Len(s) THEN TRUE
    ELSE IF Utf8Width(s, i) = 0 THEN FALSE
    ELSE IsUtf8(s, i + Utf8Width(s, i))

\* Frame::parse of '+' and '-': the line, which must be UTF-8, as a String
StringLine(l, p, kind) ==
    IF l.st # "ok" THEN [st |-> l.st, pos |-> p, frame |-> NoFrame]
    ELSE IF ~IsUtf8(l.line, 1) THEN [st |-> "error", pos |-> p, frame |-> NoFrame]
    ELSE [st |-> "ok", pos |-> l.pos, frame |-> Frame(kind, l.line, 0, <<>>)]

SimpleLine(l, p) == StringLine(l, p, "Simple")
ErrorLine(l, p) == StringLine(l, p, "Error")

\* Frame::parse of ':': the decimal as Frame::Integer (a value past 2^31 - 1 is kept
\* as its decimal digits)
IntegerLine(d, p) ==
    IF d.st # "ok" THEN [st |-> d.st, pos |-> p, frame |-> NoFrame]
    ELSE [st |-> "ok", pos |-> d.pos, frame |-> Integer(IF d.big THEN d.digits ELSE d.val)]

\* get_line, once the positions of the "\r\n" pairs after p are known: the bytes
\* from p up to the first pair, and the position after it
LineUpTo(b, p, ends) ==
    IF ends = {}
    THEN [st |-> "incomplete", line |-> <<>>, pos |-> p]
    ELSE LineEndingAt(b, p, CHOOSE x \in ends : \A y \in ends : x <= y)

\* get_line
GetLine(b, p) ==
    LineUpTo(b, p, {j \in (p + 1)..(Len(b) - 1) : b[j] = 13 /\ b[j + 1] = 10})

\* number of leading ASCII digits of a line
LeadDigits(line) ==
    Cardinality({k \in 1..Len(line) : \A i \in 1..k : IsDigit(line[i])})

RECURSIVE DigitsValue(_)
DigitsValue(ds) ==
    IF ds = <<>> THEN 0
    ELSE 10 * DigitsValue(Take(ds, Len(ds) - 1)) + (ds[Len(ds)] - 48)

\* digits without their leading zeros
RECURSIVE StripZeros(_)
StripZeros(ds) == IF ds # <<>> /\ Head(ds) = 48 THEN StripZeros(Tail(ds)) ELSE ds

\* of two digit strings of one length, a is at most b
RECURSIVE DigitsLeq(_, _)
DigitsLeq(a, b) ==
    IF a = <<>> THEN TRUE
    ELSE IF Head(a) # Head(b) THEN Head(a) < Head(b)
    ELSE DigitsLeq(Tail(a), Tail(b))

\* digits (no leading zero) of a number that is at most the one of digits top
AtMost(ds, top) == Len(ds) < Len(top) \/ (Len(ds) = Len(top) /\ DigitsLeq(ds, top))

\* u64::MAX, 18446744073709551615: atoi::<u64> gives None beyond it
U64Max == <<49, 56, 52, 52, 54, 55, 52, 52, 48, 55, 51, 55, 48, 57, 53, 53, 49, 54, 49, 53>>

\* u64::MAX - 2, 18446744073709551613: beyond it len + 2 overflows usize
U64MaxLess2 == <<49, 56, 52, 52, 54, 55, 52, 52, 48, 55, 51, 55, 48, 57, 53, 53, 49, 54, 49, 51>>

\* 2147483647, the largest integer the model computes with
IntMax == <<50, 49, 52, 55, 52, 56, 51, 54, 52, 55>>

\* no decimal: get_decimal failed with status st at position p
NoDecimal(st, p) == [st |-> st, val |-> 0, big |-> FALSE, digits |-> <<>>, pos |-> p]

\* atoi::<u64> of the digits ds (no leading zero), None on overflow: the value val,
\* or for a value past IntMax (big) its digits only
AtoiDigits(ds, pos, p) ==
    IF ~AtMost(ds, U64Max) THEN NoDecimal("error", p)
    ELSE [st |-> "ok", val |-> IF AtMost(ds, IntMax) THEN DigitsValue(ds) ELSE 0,
          big |-> ~AtMost(ds, IntMax), digits |-> ds, pos |-> pos]

\* atoi of a line with k leading digits
Atoi(l, p, k) ==
    IF k = 0 THEN NoDecimal("error", p)
    ELSE AtoiDigits(StripZeros(Take(l.line, k)), l.pos, p)

\* get_decimal, given the line: the line read as an unsigned decimal
DecimalOf(l, p) ==
    IF l.st # "ok" THEN NoDecimal("incomplete", p)
    ELSE Atoi(l, p, LeadDigits(l.line))

\* get_decimal
GetDecimal(b, p) == DecimalOf(GetLine(b, p), p)

\* skip(src, n)
Skip(b, p, n) ==
    IF Len(b) - p < n THEN [st |-> "incomplete", pos |-> p]
    ELSE [st |-> "ok", pos |-> p + n]

\* len + 2 overflows usize for the length d of a bulk
BulkWraps(d) == d.big /\ ~AtMost(d.digits, U64MaxLess2)

\* len + 2 when it wraps around: 0 for u64::MAX - 1, 1 for u64::MAX
WrappedEnd(d) == IF d.digits = U64Max THEN 1 ELSE 0

\* len + 2 for the length d of a bulk that does not wrap: "short" when it is more
\* than the remaining bytes of b, else "ok"
BulkEnd(b, d) ==
    IF d.big \/ d.val > Len(b) - d.pos - 2 THEN "short" ELSE "ok"

\* Frame::check of a bulk whose length line is d: skip(src, len + 2), where len + 2
\* panics on overflow in a build with overflow checks and wraps around in one without
CheckBulk(b, p, d) ==
    IF d.st # "ok" THEN [st |-> d.st, pos |-> p]
    ELSE IF BulkWraps(d)
    THEN IF build.overflowChecks THEN [st |-> "panic", pos |-> p]
         ELSE Skip(b, d.pos, WrappedEnd(d))
    ELSE IF BulkEnd(b, d) = "short" THEN [st |-> "incomplete", pos |-> p]
    ELSE Skip(b, d.pos, d.val + 2)

RECURSIVE FrameCheck(_, _)
RECURSIVE FrameCheckN(_, _, _)

\* Frame::check of an array whose length line is d (a count past IntMax is more than
\* the bytes of b: the loop ends at the first element that is not there)
CheckArray(b, p, d) ==
    IF d.st # "ok" THEN [st |-> d.st, pos |-> p]
    ELSE FrameCheckN(b, d.pos, IF d.big THEN Len(b) + 1 ELSE d.val)

\* Frame::check, the frame's first byte being tag
CheckTagged(b, p, tag) ==
    CASE tag = 43 \/ tag = 45 -> StPos(GetLine(b, p + 1))        \* '+' and '-'
      [] tag = 58 -> StPos(GetDecimal(b, p + 1))                 \* ':'
      [] tag = 36 ->                                             \* '$'
           IF p + 1 >= Len(b) THEN [st |-> "incomplete", pos |-> p]
           ELSE IF b[p + 2] = 45 THEN Skip(b, p + 1, 4)
           ELSE CheckBulk(b, p, GetDecimal(b, p + 1))
      [] tag = 42 -> CheckArray(b, p, GetDecimal(b, p + 1))      \* '*'
      [] OTHER -> [st |-> "error", pos |-> p]

\* Frame::check
FrameCheck(b, p) ==
    IF p >= Len(b) THEN [st |-> "incomplete", pos |-> p] ELSE CheckTagged(b, p, b[p + 1])

\* the rest of the loop of Frame::check over the elements of an array, one checked
CheckRest(b, c, n) == IF c.st # "ok" THEN c ELSE FrameCheckN(b, c.pos, n - 1)

\* the loop of Frame::check over the elements of an array
FrameCheckN(b, p, n) ==
    IF n = 0 THEN [st |-> "ok", pos |-> p] ELSE CheckRest(b, FrameCheck(b, p), n)

\* Frame::parse of "$-...": only "-1" is a frame, Null
ParseNull(l, p) ==
    IF l.st # "ok" THEN [st |-> "incomplete", pos |-> p, frame |-> NoFrame]
    ELSE IF l.line # <<45, 49>> THEN [st |-> "error", pos |-> p, frame |-> NoFrame]
    ELSE [st |-> "ok", pos |-> l.pos, frame |-> Null]

\* Frame::parse of a bulk whose length line is d
ParseBulk(b, p, d) ==
    IF d.st # "ok" THEN [st |-> d.st, pos |-> p, frame |-> NoFrame]
    ELSE IF BulkWraps(d)
    THEN IF build.overflowChecks \/ Len(b) - d.pos >= WrappedEnd(d)
         THEN [st |-> "panic", pos |-> p, frame |-> NoFrame]      \* len + 2, or chunk()[..len]
         ELSE [st |-> "incomplete", pos |-> p, frame |-> NoFrame]
    ELSE IF BulkEnd(b, d) = "short"
    THEN [st |-> "incomplete", pos |-> p, frame |-> NoFrame]
    ELSE [st |-> "ok", pos |-> d.pos + d.val + 2,
          frame |-> Bulk(SubSeq(b, d.pos + 1, d.pos + d.val))]

RECURSIVE FrameParse(_, _)
RECURSIVE FrameParseN(_, _, _, _)

\* Frame::parse of an array whose length line is d: Vec::with_capacity(len) does not
\* return (capacity overflow, or the allocation fails and the process aborts) when
\* the allocator cannot give len frames
ParseArray(b, p, d) ==
    IF d.st # "ok" THEN [st |-> d.st, pos |-> p, frame |-> NoFrame]
    ELSE IF d.big \/ d.val > build.allocFrames
    THEN [st |-> "panic", pos |-> p, frame |-> NoFrame]
    ELSE FrameParseN(b, d.pos, d.val, <<>>)

\* Frame::parse, the frame's first byte being tag
ParseTagged(b, p, tag) ==
    CASE tag = 43 -> SimpleLine(GetLine(b, p + 1), p)
      [] tag = 45 -> ErrorLine(GetLine(b, p + 1), p)
      [] tag = 58 -> IntegerLine(GetDecimal(b, p + 1), p)
      [] tag = 36 ->
           IF p + 1 >= Len(b) THEN [st |-> "incomplete", pos |-> p, frame |-> NoFrame]
           ELSE IF b[p + 2] = 45 THEN ParseNull(GetLine(b, p + 1), p)
           ELSE ParseBulk(b, p, GetDecimal(b, p + 1))
      [] tag = 42 -> ParseArray(b, p, GetDecimal(b, p + 1))
      [] OTHER -> [st |-> "panic", pos |-> p, frame |-> NoFrame]                \* unimplemented!()

\* Frame::parse
FrameParse(b, p) ==
    IF p >= Len(b) THEN [st |-> "incomplete", pos |-> p, frame |-> NoFrame]
    ELSE ParseTagged(b, p, b[p + 1])

\* the rest of the loop of Frame::parse over the elements of an array, one parsed
ParseRest(b, r, n, acc) ==
    IF r.st # "ok" THEN r ELSE FrameParseN(b, r.pos, n - 1, Append(acc, r.frame))

\* the loop of Frame::parse over the elements of an array
FrameParseN(b, p, n, acc) ==
    IF n = 0 THEN [st |-> "ok", pos |-> p, frame |-> Array(acc)]
    ELSE ParseRest(b, FrameParse(b, p), n, acc)

----------------------------------------------------------------------------
(* The read path: Connection::new, parse_frame, read_frame *)

\* BytesMut::with_capacity(4096): the allocation of a new connection's buffer
InitialCapacity == 4096

\* the cursor of a new connection
InitialCursor == 0

\* BytesMut::resize(new_len, 0): truncate, or extend with zero bytes
Resize(buf, newLen) ==
    IF newLen <= Len(buf) THEN Take(buf, newLen)
    ELSE buf \o Zeros(newLen - Len(buf))

\* BytesMut::reserve(additional) of a buffer of len bytes, capacity cap, off bytes
\* into its allocation: nothing when there is room; else the data moves back to the
\* start of the allocation when that gives room and off >= len; else the Vec of
\* cap + off bytes is re-allocated (Vec::reserve: amortised doubling, at least 8)
Reserve(len, cap, off, additional) ==
    IF additional <= cap - len THEN [capacity |-> cap, offset |-> off]
    ELSE IF cap - len + off >= additional /\ off >= len
    THEN [capacity |-> cap + off, offset |-> 0]
    ELSE [capacity |-> Max(Max(2 * (cap + off), len + off + additional), 8) - off,
          offset |-> off]

\* the allocation after resize(new_len, 0): reserve(new_len - len) when it extends
ResizeCapacity(len, cap, off, newLen) ==
    IF newLen <= len THEN [capacity |-> cap, offset |-> off]
    ELSE Reserve(len, cap, off, newLen - len)

\* parse_frame after Frame::check gave c and (when c is Ok) Frame::parse gave r:
\* the frame and the buffer advanced by the checked length, or nothing, or an error
ParseOutcome(buf, cap, off, c, r) ==
    CASE c.st = "ok" /\ r.st = "ok" ->
           [st |-> "frame", frame |-> r.frame, used |-> c.pos,
            buffer |-> Drop(buf, c.pos), capacity |-> cap - c.pos, offset |-> off + c.pos]
      [] c.st = "incomplete" ->
           [st |-> "none", frame |-> NoFrame, used |-> 0, buffer |-> buf, capacity |-> cap,
            offset |-> off]
      [] c.st = "panic" \/ (c.st = "ok" /\ r.st = "panic") ->
           [st |-> "panic", frame |-> NoFrame, used |-> 0, buffer |-> buf, capacity |-> cap,
            offset |-> off]
      [] OTHER ->
           [st |-> "error", frame |-> NoFrame, used |-> 0, buffer |-> buf, capacity |-> cap,
            offset |-> off]

\* Cursor::new(&self.buffer[..]): the bytes parse_frame hands to the codec
ParseWindow(buf) == buf

\* parse_frame: check the whole of self.buffer, parse it, advance the buffer
parse_frame(buf, cap, off) ==
    ParseOutcome(buf, cap, off, FrameCheck(ParseWindow(buf), 0), FrameParse(ParseWindow(buf), 0))

\* "Ensure the buffer has capacity": grow when buffer.len() == cursor
NeedsGrow(buf, cur) == Len(buf) = cur

\* growth that starts from the initial capacity when the cursor is 0
GrowLenFromInitial(cur) == IF cur = 0 THEN InitialCapacity ELSE cur * 2

\* self.cursor * 2
GrowLen(cur) == cur * 2

\* the buffer and its allocation after the capacity step
EnsureCapacity(buf, cap, off, cur) ==
    IF NeedsGrow(buf, cur)
    THEN [buffer |-> Resize(buf, GrowLen(cur)),
          capacity |-> ResizeCapacity(Len(buf), cap, off, GrowLen(cur)).capacity,
          offset |-> ResizeCapacity(Len(buf), cap, off, GrowLen(cur)).offset]
    ELSE [buffer |-> buf, capacity |-> cap, offset |-> off]

\* read_frame between parse_frame, which gave pf, and the read: `?` and the return
\* of a frame, else the buffer g to read into (slicing it at cursor panics when
\* cursor is past its end)
AfterParse(pf, g, cur) ==
    CASE pf.st = "frame" ->
           [ret |-> "frame", frame |-> pf.frame, used |-> pf.used,
            buffer |-> pf.buffer, capacity |-> pf.capacity, offset |-> pf.offset]
      [] pf.st = "error" ->
           [ret |-> "parse_error", frame |-> NoFrame, used |-> 0,
            buffer |-> pf.buffer, capacity |-> pf.capacity, offset |-> pf.offset]
      [] pf.st = "panic" ->
           [ret |-> "panic", frame |-> NoFrame, used |-> 0,
            buffer |-> pf.buffer, capacity |-> pf.capacity, offset |-> pf.offset]
      [] OTHER ->
           [ret |-> IF cur > Len(g.buffer) THEN "panic" ELSE "await",
            frame |-> NoFrame, used |-> 0, buffer |-> g.buffer, capacity |-> g.capacity,
            offset |-> g.offset]

\* read_frame from the top of its loop up to the read it awaits, or to its return
LoopTop(buf, cap, off, cur) ==
    AfterParse(parse_frame(buf, cap, off), EnsureCapacity(buf, cap, off, cur), cur)

\* what the call of Frame::check at the top of the loop was given, the buffer being
\* buf and the cursor cur
Checked(buf, cur) == [seen |-> Len(ParseWindow(buf)), valid |-> cur]

\* a zero-byte read after which the loop goes round again
AfterReadRetry(n) ==
    /\ cursor' = cursor + n
    /\ lastCheck' = lastCheck
    /\ buffer' = buffer
    /\ capacity' = capacity
    /\ offset' = offset
    /\ rpc' = "reading"
    /\ rresults' = rresults

\* the two results of a zero-byte read, exchanged
EofResultSwapped(cur) == IF cur = 0 THEN "reset" ELSE "eof"

\* what read_frame returns when the read gave zero bytes
EofResult(cur) == IF cur = 0 THEN "eof" ELSE "reset"

\* bytes a read moves from the socket into buffer[cursor..]
ReadCount(buf, cur, avail) == Min(Len(avail), Len(buf) - cur)

\* the buffer after the read wrote n bytes of data at cursor
Fill(buf, cur, data, n) == Take(buf, cur) \o Take(data, n) \o Drop(buf, cur + n)

\* bytes consumed from the stream by the units returned so far
RECURSIVE Consumed(_)
Consumed(rs) == IF rs = <<>> THEN 0 ELSE rs[Len(rs)].used + Consumed(Take(rs, Len(rs) - 1))

\* what the codec says of the bytes rest: the status of Frame::check, and when that
\* is Ok what Frame::parse does: it gives the frame ("ok"), panics, or returns an
\* error
Pending(rest) ==
    IF rest = <<>> THEN "empty"
    ELSE IF FrameCheck(rest, 0).st # "ok" THEN FrameCheck(rest, 0).st
    ELSE IF FrameParse(rest, 0).st \in {"ok", "panic"} THEN FrameParse(rest, 0).st
    ELSE "error"

\* the record of one completed read_frame call: what it returned (kind, frame), the
\* bytes of the stream the returned unit took (used), the count n of the last read
\* (-1: no read) and the cursor it found (filled), the length of the buffer the unit
\* was parsed from or that is left (cap), and the connection's input at that moment:
\* the bytes delivered so far (sent), whether in several deliveries (split), whether
\* the peer had closed; and whether the call's read of the socket failed
ReadResult(kind, frame, used, n, filled, sent, closed, failed) ==
    [kind |-> kind, frame |-> frame, used |-> used, n |-> n, filled |-> filled,
     failed |-> failed,
     sent |-> sent, closed |-> closed, cap |-> Len(buffer') + used, split |-> split]

\* read_frame goes on from its loop top with outcome lt, after a read of n bytes
\* (-1: from the call) that found the cursor at filled
Continue(lt, n, filled) ==
    /\ buffer' = lt.buffer
    /\ capacity' = lt.capacity
    /\ offset' = lt.offset
    /\ IF lt.ret = "await"
       THEN /\ rpc' = "reading"
            /\ rresults' = rresults
       ELSE /\ rpc' = "idle"
            /\ rresults' = Append(rresults,
                   ReadResult(lt.ret, lt.frame, lt.used, n, filled, nsent, peerClosed, FALSE))

\* the caller invokes read_frame: it runs to its first read, or returns
ReadFrameCall ==
    /\ rpc = "idle"
    /\ wcall.pc = "idle"
    /\ Len(rresults) < MaxReads
    /\ cursor' = cursor
    /\ lastCheck' = Checked(buffer, cursor)
    /\ Continue(LoopTop(buffer, capacity, offset, cursor), -1, cursor)
    /\ UNCHANGED <<peerVars, writerVars, envVars>>

\* the read gave n bytes: zero ends the call, else the cursor moves and the loop goes on
AfterRead(n) ==
    IF n = 0
    THEN /\ rpc' = "idle"
         /\ UNCHANGED <<buffer, capacity, offset, cursor, lastCheck>>
         /\ rresults' = Append(rresults,
                ReadResult(EofResult(cursor), NoFrame, 0, 0, cursor, nsent, peerClosed, FALSE))
    ELSE /\ cursor' = cursor + n
         /\ lastCheck' = Checked(Fill(buffer, cursor, sock, n), cursor + n)
         /\ Continue(LoopTop(Fill(buffer, cursor, sock, n), capacity, offset, cursor + n),
                     n, cursor)

\* the awaited read completes: the socket is readable (data, or the peer closed)
ReadComplete ==
    /\ rpc = "reading"
    /\ sock # <<>> \/ peerClosed
    /\ sock' = Drop(sock, ReadCount(buffer, cursor, sock))
    /\ AfterRead(ReadCount(buffer, cursor, sock))
    /\ UNCHANGED <<stream, sentUnits, nsent, split, peerClosed, writerVars, envVars>>

\* `?` on the awaited read: its error is what read_frame returns
ReadFailure == "io_error"

\* the awaited read fails: the error is returned by `?`
ReadError ==
    /\ rpc = "reading"
    /\ rpc' = "idle"
    /\ UNCHANGED <<buffer, capacity, offset, cursor, lastCheck, peerVars, writerVars, envVars>>
    /\ rresults' = Append(rresults,
           ReadResult(ReadFailure, NoFrame, 0, -1, cursor, nsent, peerClosed, TRUE))

----------------------------------------------------------------------------
(* The write path: write_frame over BufWriter<TcpStream> *)

\* BufWriter::new: the size of the writer's internal buffer (tokio's default, 8 KiB)
WriterCapacity == 8192

\* no write_frame call is running
NoCall ==
    [pc |-> "idle", frame |-> NoFrame, todo |-> <<>>, acc |-> <<>>, failed |-> FALSE,
     base |-> 0]

\* The writer while a write_frame call c runs: the bytes pending in BufWriter (buf),
\* the bytes the TcpStream accepted (wire), and of the call: where it is (pc), its
\* frame, the data of its writes that self.stream has not accepted yet (todo), the
\* bytes self.stream accepted in it (acc), whether an operation on the TcpStream
\* failed in it (failed) and the length of the output when it began (base).
\* pc is "run" while the call runs without the TcpStream; "flush_buf", "write" and
\* "flush" when it awaits TcpStream::poll_write (for the pending bytes before a
\* write, for data written through, for the pending bytes in the final flush);
\* "ok", "io_error" and "panic" when it has ended.
Writer(buf, w, c) ==
    [buf |-> buf, wire |-> w, pc |-> c.pc, frame |-> c.frame, todo |-> c.todo,
     acc |-> c.acc, failed |-> c.failed, base |-> c.base]

\* BufWriter::flush_buf: the TcpStream accepted the first k of the pending bytes
FlushBuf(s, k) ==
    [s EXCEPT !.wire = s.wire \o Take(s.buf, k), !.buf = Drop(s.buf, k)]

\* BufWriter::poll_write passes data on: the TcpStream accepted its first k bytes, and
\* write_all goes on with the rest
Accept(s, k) ==
    [s EXCEPT !.wire = s.wire \o Take(Head(s.todo), k),
              !.acc = s.acc \o Take(Head(s.todo), k),
              !.todo = <<Drop(Head(s.todo), k)>> \o Tail(s.todo)]

\* BufWriter::poll_write of data (not empty): the pending bytes go out first when
\* data does not fit behind them; data as large as the internal buffer is passed on
\* to the TcpStream; other data is appended to the pending bytes
BufWrite(s, data) ==
    IF s.buf # <<>> /\ Len(s.buf) + Len(data) > WriterCapacity
    THEN [s EXCEPT !.pc = "flush_buf"]
    ELSE IF Len(data) >= WriterCapacity
    THEN [s EXCEPT !.pc = "write"]
    ELSE [s EXCEPT !.buf = s.buf \o data, !.acc = s.acc \o data, !.todo = Tail(s.todo)]

\* the writes of write_frame's match, one after another, up to one that awaits the
\* TcpStream; write_all of no bytes does nothing
RECURSIVE WriteAll(_)
WriteAll(s) ==
    IF s.pc # "run" \/ s.todo = <<>> THEN s
    ELSE IF Head(s.todo) = <<>> THEN WriteAll([s EXCEPT !.todo = Tail(s.todo)])
    ELSE WriteAll(BufWrite(s, Head(s.todo)))

RECURSIVE DecimalDigits(_)
DecimalDigits(v) ==
    IF v < 10 THEN <<48 + v>>
    ELSE Append(DecimalDigits(v \div 10), 48 + (v % 10))

\* write_decimal: the value in decimal, then "\r\n"
write_decimal(v) == <<DecimalDigits(v), CRLF>>

\* null written as a bulk of length zero
NullAsEmptyBulk == <<36, 48, 13, 10, 13, 10>>

\* b"$-1\r\n"
NullLiteral == <<36, 45, 49, 13, 10>>

\* the writes write_frame makes for a frame, in order
FrameWrites(f) ==
    CASE f.kind = "Simple" -> <<<<43>>, f.bytes, CRLF>>
      [] f.kind = "Error" -> <<<<45>>, f.bytes, CRLF>>
      [] f.kind = "Integer" -> <<<<58>>>> \o write_decimal(f.num)
      [] f.kind = "Null" -> <<NullLiteral>>
      [] f.kind = "Bulk" -> <<<<36>>>> \o write_decimal(Len(f.bytes)) \o <<f.bytes, CRLF>>
      [] OTHER -> <<>>

\* the number of bytes in the writes ws
RECURSIVE TotalLen(_)
TotalLen(ws) == IF ws = <<>> THEN 0 ELSE Len(Head(ws)) + TotalLen(Tail(ws))

\* the number of bytes the calls ws were given to write
RECURSIVE Given(_)
Given(ws) ==
    IF ws = <<>> THEN 0 ELSE TotalLen(FrameWrites(Head(ws).frame)) + Given(Tail(ws))

\* an array arm that does nothing
ArraySkipped(f) == FALSE

\* Frame::Array(_val) => unimplemented!()
Unimplemented(f) == f.kind = "Array"

\* self.stream.flush().await: with pending bytes the flush awaits the TcpStream,
\* with none it is done and write_frame returns Ok(())
AfterFlush(s) ==
    IF s.buf = <<>> THEN [s EXCEPT !.pc = "ok"] ELSE [s EXCEPT !.pc = "flush"]

\* self.stream.flush().await;  -- the Result of the flush is dropped, Ok(()) follows
FlushResult(s) == [s EXCEPT !.pc = "ok", !.failed = TRUE]

\* a write of the match returned an error: `?` returns it
WriteError(s) == [s EXCEPT !.pc = "io_error", !.failed = TRUE]

\* write_frame from a point where it runs: the writes left, then the flush
Finish(s) ==
    IF WriteAll(s).pc = "run" THEN AfterFlush(WriteAll(s)) ELSE WriteAll(s)

\* write_frame(f) from its call to its first await of the TcpStream, or to its end
write_frame(f, buf, w) ==
    IF Unimplemented(f)
    THEN Writer(buf, w, [NoCall EXCEPT !.pc = "panic", !.frame = f,
                                       !.base = Len(w) + Len(buf)])
    ELSE Finish(Writer(buf, w, [NoCall EXCEPT !.pc = "run", !.frame = f,
                                              !.todo = FrameWrites(f),
                                              !.base = Len(w) + Len(buf)]))

\* the bytes the awaited TcpStream::poll_write is offered
Offered(s) == IF s.pc = "write" THEN Head(s.todo) ELSE s.buf

\* write_frame resumed after TcpStream::poll_write returned Ok(k)
StreamOk(s, k) ==
    CASE s.pc = "write" -> Finish([Accept(s, k) EXCEPT !.pc = "run"])
      [] s.pc = "flush_buf" ->
           IF k < Len(s.buf) THEN FlushBuf(s, k)
           ELSE Finish([FlushBuf(s, k) EXCEPT !.pc = "run"])
      [] s.pc = "flush" -> AfterFlush(FlushBuf(s, k))

\* write_frame resumed after TcpStream::poll_write returned an error
StreamErr(s) == IF s.pc = "flush" THEN FlushResult(s) ELSE WriteError(s)

\* frames handed to write_frame
Texts == {<<>>, <<79, 75>>}
Payloads == {<<>>, <<104, 105>>}
Numbers == {0, 305}
SmallFrames ==
    {Simple(t) : t \in Texts} \cup {Error(<<69>>)}
    \cup {Integer(n) : n \in Numbers} \cup {Null}
    \cup {Bulk(b) : b \in Payloads} \cup {Array(<<>>), Array(<<Null>>)}
\* a payload as large as the writer's internal buffer, which is written through
LargePayload == [i \in 1..WriterCapacity |-> 120]
WriteFrames == SmallFrames \cup {Bulk(LargePayload)}
\* frames handed to the write_frame whose output is read back
LoopFrames == SmallFrames \cup {Bulk(<<13, 10>>)}

\* sizes of a write the TcpStream accepts when len bytes are offered to it
AcceptSizes(len) == IF len <= MaxFine THEN 1..len ELSE {1, len}

\* write_frame has ended
Returns(s) == s.pc \in {"ok", "io_error", "panic"}

\* the state after write_frame ran up to s, and when it ended there the record of
\* the call: its outcome, the bytes self.stream accepted in it (emitted), the bytes
\* left pending in the BufWriter when it ended, whether an operation on the
\* TcpStream failed during it, and by how many bytes the call made the output
\* (accepted by the TcpStream, or pending) longer
Written(s) ==
    /\ wbuf' = s.buf
    /\ wire' = s.wire
    /\ wcall' = IF Returns(s) THEN NoCall
                ELSE [pc |-> s.pc, frame |-> s.frame, todo |-> s.todo, acc |-> s.acc,
                      failed |-> s.failed, base |-> s.base]
    /\ wresults' = IF Returns(s)
                   THEN Append(wresults,
                            [frame |-> s.frame, outcome |-> s.pc, emitted |-> s.acc,
                             pending |-> Len(s.buf), failed |-> s.failed,
                             grew |-> (Len(s.wire) + Len(s.buf)) - s.base])
                   ELSE wresults

\* the caller invokes write_frame(frame), while no call on the connection is under
\* way (both take &mut self) and the frames given to it stay within MaxOutput
\* bytes: it runs to its first await of the TcpStream, or returns
WriteFrame(frame) ==
    /\ rpc = "idle"
    /\ wcall.pc = "idle"
    /\ Len(wresults) < MaxWrites
    /\ Given(wresults) + TotalLen(FrameWrites(frame)) <= MaxOutput
    /\ Written(write_frame(frame, wbuf, wire))
    /\ UNCHANGED <<shortWrites, readerVars, peerVars, envVars>>

\* the awaited write on the TcpStream accepts k bytes, fewer than offered or all
StreamWrite(k) ==
    /\ wcall.pc \in {"flush_buf", "write", "flush"}
    /\ k \in 1..Len(Offered(Writer(wbuf, wire, wcall)))
    /\ k < Len(Offered(Writer(wbuf, wire, wcall))) => shortWrites < MaxShort
    /\ shortWrites' = IF k < Len(Offered(Writer(wbuf, wire, wcall)))
                      THEN shortWrites + 1 ELSE shortWrites
    /\ Written(StreamOk(Writer(wbuf, wire, wcall), k))
    /\ UNCHANGED <<readerVars, peerVars, envVars>>

\* the awaited write on the TcpStream fails
StreamError ==
    /\ wcall.pc \in {"flush_buf", "write", "flush"}
    /\ Written(StreamErr(Writer(wbuf, wire, wcall)))
    /\ UNCHANGED <<shortWrites, readerVars, peerVars, envVars>>

----------------------------------------------------------------------------
(* The peer: the wire format it speaks, the streams it sends, how it sends them *)

\* a decimal numeral: one digit, or a numeral without its last digit followed by it
RECURSIVE Decimal(_)
Decimal(v) ==
    IF v \in 0..9 THEN <<48 + v>> ELSE Decimal(v \div 10) \o <<48 + (v % 10)>>

\* the wire encoding of a unit
WireEncoding(f) ==
    CASE f.kind = "Simple" -> <<43>> \o f.bytes \o CRLF
      [] f.kind = "Error" -> <<45>> \o f.bytes \o CRLF
      [] f.kind = "Integer" -> <<58>> \o Decimal(f.num) \o CRLF
      [] f.kind = "Null" -> <<36, 45, 49>> \o CRLF
      [] f.kind = "Bulk" -> <<36>> \o Decimal(Len(f.bytes)) \o CRLF \o f.bytes \o CRLF
      [] OTHER -> <<>>

RECURSIVE EncodeAll(_)
EncodeAll(us) == IF us = <<>> THEN <<>> ELSE WireEncoding(Head(us)) \o EncodeAll(Tail(us))

\* a bulk unit whose payload alone fills the initial allocation of the read buffer
BigUnit == Bulk([i \in 1..InitialCapacity |-> 120])

SmallUnits ==
    {Simple(<<79, 75>>), Error(<<69>>), Integer(12), Null, Bulk(<<>>), Bulk(<<104, 105>>)}
PairUnits == {Simple(<<79, 75>>), Null, Bulk(<<104, 105>>)}

\* streams of whole units
UnitStreams ==
    {<<u>> : u \in SmallUnits \cup {BigUnit}} \cup {<<a, b>> : a \in PairUnits, b \in PairUnits}

\* streams that are no sequence of whole units: nothing at all, "!", "+O", ":x\r\n",
\* "$2\r\nh", "$-2\r\n", and "+\xff\r\n" (no UTF-8)
BadStreams ==
    {<<>>, <<33>>, <<43, 79>>, <<58, 120, 13, 10>>, <<36, 50, 13, 10, 104>>,
     <<36, 45, 50, 13, 10>>, <<43, 255, 13, 10>>}

\* sizes of the next delivery when rest bytes of a stream of length total remain
ChunkSizes(total, rest) ==
    IF total <= MaxFine THEN 1..rest ELSE {InitialCapacity, rest} \cap 1..rest

\* the peer's next bytes arrive at the socket
PeerSend(k) ==
    /\ ~peerClosed
    /\ nsent < Len(stream)
    /\ sock' = sock \o SubSeq(stream, nsent + 1, nsent + k)
    /\ nsent' = nsent + k
    /\ split' = (split \/ nsent > 0)
    /\ UNCHANGED <<stream, sentUnits, peerClosed, readerVars, writerVars, envVars>>

\* the peer closes its write side, having sent its stream
PeerClose ==
    /\ ~peerClosed
    /\ nsent = Len(stream)
    /\ peerClosed' = TRUE
    /\ UNCHANGED <<stream, sentUnits, nsent, split, sock, readerVars, writerVars, envVars>>

\* bytes this connection wrote travel to the socket of the connection reading them
Transmit(k) ==
    /\ ~peerClosed
    /\ sock' = sock \o SubSeq(wire, nsent + 1, nsent + k)
    /\ stream' = stream \o SubSeq(wire, nsent + 1, nsent + k)
    /\ nsent' = nsent + k
    /\ split' = (split \/ nsent > 0)
    /\ UNCHANGED <<sentUnits, peerClosed, readerVars, writerVars, envVars>>

----------------------------------------------------------------------------
(* Specifications *)

\* the builds of the program and the machines it runs on
Builds == [overflowChecks : BOOLEAN, allocFrames : {LowMemory, HighMemory}]

\* Connection::new, in a program built and run in one of the ways
NewConnection ==
    /\ build \in Builds
    /\ buffer = <<>>
    /\ capacity = InitialCapacity
    /\ offset = 0
    /\ cursor = InitialCursor
    /\ rpc = "idle"
    /\ rresults = <<>>
    /\ lastCheck = [seen |-> 0, valid |-> 0]
    /\ wbuf = <<>>
    /\ wire = <<>>
    /\ wcall = NoCall
    /\ shortWrites = 0
    /\ wresults = <<>>

\* a new connection whose peer is about to send one of the streams
Init ==
    /\ NewConnection
    /\ \/ /\ sentUnits \in UnitStreams
          /\ stream = EncodeAll(sentUnits)
       \/ /\ sentUnits = <<>>
          /\ stream \in BadStreams
    /\ nsent = 0
    /\ split = FALSE
    /\ sock = <<>>
    /\ peerClosed = FALSE

\* a new connection that nothing has been sent to
InitQuiet ==
    /\ NewConnection
    /\ sentUnits = <<>>
    /\ stream = <<>>
    /\ nsent = 0
    /\ split = FALSE
    /\ sock = <<>>
    /\ peerClosed = FALSE

\* the read path against a peer
Next ==
    \/ ReadFrameCall
    \/ ReadComplete
    \/ ReadError
    \/ \E k \in ChunkSizes(Len(stream), Len(stream) - nsent) : PeerSend(k)
    \/ PeerClose

Spec == Init /\ [][Next]_vars

\* the read path when every awaited read that can complete does, and the peer goes
\* on to deliver its stream and close
SpecLive ==
    /\ Spec
    /\ WF_vars(ReadComplete)
    /\ WF_vars(\E k \in ChunkSizes(Len(stream), Len(stream) - nsent) : PeerSend(k))
    /\ WF_vars(PeerClose)

\* the write path
NextWrite ==
    \/ \E f \in WriteFrames : WriteFrame(f)
    \/ \E k \in AcceptSizes(Len(Offered(Writer(wbuf, wire, wcall)))) : StreamWrite(k)
    \/ StreamError

SpecWrite == InitQuiet /\ [][NextWrite]_vars

\* what one connection writes is read by another
NextLoop ==
    \/ \E f \in LoopFrames : Len(wresults) < MaxLoopWrites /\ WriteFrame(f)
    \/ \E k \in AcceptSizes(Len(Offered(Writer(wbuf, wire, wcall)))) : StreamWrite(k)
    \/ StreamError
    \/ \E k \in ChunkSizes(Len(wire), Len(wire) - nsent) : Transmit(k)
    \/ ReadFrameCall
    \/ ReadComplete
    \/ ReadError

SpecLoop == InitQuiet /\ [][NextLoop]_vars

----------------------------------------------------------------------------
(* Properties *)

Reads == 1..Len(rresults)
Writes == 1..Len(wresults)

\* what the codec says of the bytes that were delivered when the i-th read_frame
\* call returned and that no unit returned before it had consumed
Avail(i) ==
    Pending(SubSeq(stream, Consumed(SubSeq(rresults, 1, i - 1)) + 1, rresults[i].sent))

\* the read path never holds a byte: the buffer stays empty at its first allocation,
\* the cursor stays 0, Frame::check is only ever given the empty window, and a call
\* returns the clean end of stream or an I/O error
NothingBuffered ==
    /\ buffer = <<>> /\ cursor = 0
    /\ capacity = InitialCapacity /\ offset = 0
    /\ lastCheck.seen = 0
    /\ \A i \in Reads :
          rresults[i].filled = 0 /\ rresults[i].kind \in {"eof", ReadFailure}

\* the first read_frame call has returned, and not with an I/O error
FirstReadDone == Len(rresults) >= 1 /\ rresults[1].kind # "io_error"

\* C1 (incremental delivery): whatever the deliveries the bytes of a stream of units
\* arrive in, the first read_frame call on the new connection returns the first unit
\* sent, as it does when the bytes arrive in a single delivery.
IncrementalDelivery ==
    (sentUnits # <<>> /\ FirstReadDone) =>
        (rresults[1].kind = "frame" /\ rresults[1].frame = sentUnits[1])

\* C2 (buffer compaction): when the encodings of units A and B have arrived in one
\* delivery, the first read_frame call returns A and the second returns B, each
\* taking exactly its own bytes of the stream.
BufferCompaction ==
    (Len(sentUnits) = 2 /\ FirstReadDone
       /\ rresults[1].sent = Len(stream) /\ ~rresults[1].split) =>
        /\ rresults[1].kind = "frame"
        /\ rresults[1].frame = sentUnits[1]
        /\ rresults[1].used = Len(WireEncoding(sentUnits[1]))
        /\ (Len(rresults) >= 2 /\ rresults[2].kind # "io_error") =>
              /\ rresults[2].kind = "frame"
              /\ rresults[2].frame = sentUnits[2]
              /\ rresults[2].used = Len(WireEncoding(sentUnits[2]))

\* C3 (clean end of stream): a read_frame call whose read gave zero bytes while the
\* cursor was 0 returned the clean end of stream, Ok(None), not an error.
CleanEndOfStream ==
    \A i \in Reads :
        (rresults[i].n = 0 /\ rresults[i].filled = 0) => rresults[i].kind = "eof"

\* C3's case: the peer closed having sent nothing that is not consumed, the read gave
\* zero bytes with the cursor at 0, and the call returned the clean end of stream
CleanEndOfStreamReached ==
    \E i \in Reads :
        /\ rresults[i].n = 0 /\ rresults[i].filled = 0
        /\ rresults[i].closed /\ Avail(i) = "empty"
        /\ rresults[i].kind = "eof"

\* the initial capacity times a power of two
Doublings == {InitialCapacity, 2 * InitialCapacity, 4 * InitialCapacity, 8 * InitialCapacity}

\* C6 (growth): a unit whose encoding is longer than the initial capacity is returned
\* intact by read_frame, from a buffer whose size is the initial capacity times a
\* power of two and is at least the length of the encoding.
GrowthCorrectness ==
    (Len(sentUnits) = 1 /\ Len(stream) > InitialCapacity /\ FirstReadDone) =>
        /\ rresults[1].kind = "frame"
        /\ rresults[1].frame = sentUnits[1]
        /\ rresults[1].cap \in Doublings
        /\ rresults[1].cap >= Len(stream)

\* C7 as stated (unsupported write): write_frame of an array returns an error of its
\* own kind to the caller and writes nothing.
UnsupportedWriteReturnsError ==
    \A i \in Writes :
        wresults[i].frame.kind = "Array" =>
            (wresults[i].outcome = "unsupported" /\ wresults[i].grew = 0)

\* C7 as amended: write_frame of an array does not return: it panics (neither Ok nor
\* an I/O error comes back), nothing is accepted by the stream and the output grows
\* by no byte.
UnsupportedWritePanics ==
    \A i \in Writes :
        wresults[i].frame.kind = "Array" =>
            /\ wresults[i].outcome = "panic"
            /\ wresults[i].emitted = <<>>
            /\ wresults[i].grew = 0

\* C7's case: an array was handed to write_frame after a unit was written
UnsupportedWriteReached ==
    \E i \in Writes :
        /\ i > 1
        /\ wresults[i].frame.kind = "Array"
        /\ wresults[i].frame.items # <<>>
        /\ wresults[i].outcome = "panic"

\* the decimal numerals of the numbers that are written
Numeral(v) ==
    CASE v = 0 -> <<48>>
      [] v = 2 -> <<50>>
      [] v = 305 -> <<51, 48, 53>>
      [] v = 8192 -> <<56, 49, 57, 50>>

\* C8 (byte-exact encoding): a write_frame call that returned Ok made the stream
\* accept exactly these bytes, and the output grew by exactly them: '+' text CRLF for
\* a status, '-' text CRLF for an error, ':' numeral CRLF for an integer (":305\r\n"
\* for 305), "$-1\r\n" for null, '$' numeral-of-length CRLF payload CRLF for a bulk
\* ("$2\r\nhi\r\n" for "hi"); and null is not written as the empty bulk is.
ByteExactEncoding ==
    /\ \A i \in Writes :
          wresults[i].outcome = "ok" =>
             /\ wresults[i].frame.kind = "Simple" =>
                   wresults[i].emitted = <<43>> \o wresults[i].frame.bytes \o <<13, 10>>
             /\ wresults[i].frame.kind = "Error" =>
                   wresults[i].emitted = <<45>> \o wresults[i].frame.bytes \o <<13, 10>>
             /\ wresults[i].frame.kind = "Integer" =>
                   wresults[i].emitted =
                      <<58>> \o Numeral(wresults[i].frame.num) \o <<13, 10>>
             /\ wresults[i].frame.kind = "Null" =>
                   wresults[i].emitted = <<36, 45, 49, 13, 10>>
             /\ wresults[i].frame.kind = "Bulk" =>
                   wresults[i].emitted =
                      <<36>> \o Numeral(Len(wresults[i].frame.bytes)) \o <<13, 10>>
                         \o wresults[i].frame.bytes \o <<13, 10>>
             /\ wresults[i].grew = Len(wresults[i].emitted)
    /\ \A i, j \in Writes :
          (wresults[i].outcome = "ok" /\ wresults[j].outcome = "ok"
             /\ wresults[i].frame = Null /\ wresults[j].frame = Bulk(<<>>)) =>
                wresults[i].emitted # wresults[j].emitted

\* C8's case: null and the empty bulk were both written with success
ByteExactEncodingReached ==
    \E i, j \in Writes :
        /\ wresults[i].outcome = "ok" /\ wresults[i].frame = Null
        /\ wresults[j].outcome = "ok" /\ wresults[j].frame = Bulk(<<>>)

\* C9 (write round trip): when the bytes a successful write_frame produced are what
\* a new connection receives, its first read_frame call returns a unit equal to the
\* frame written, taking all of its bytes and leaving none.
WriteRoundTrip ==
    (Len(wresults) = 1 /\ wresults[1].outcome = "ok" /\ FirstReadDone) =>
        /\ rresults[1].kind = "frame"
        /\ rresults[1].frame = wresults[1].frame
        /\ rresults[1].used = Len(wresults[1].emitted)

\* C10 (flush before return): when write_frame has returned Ok, no byte is pending
\* in the writer's internal buffer.
FlushBeforeReturn ==
    \A i \in Writes : wresults[i].outcome = "ok" => wresults[i].pending = 0

\* C11 (I/O failure propagation): a call during which an operation on the underlying
\* stream failed (the socket read of read_frame; a write or the final flush of
\* write_frame) returns the I/O failure: never Ok, a unit or the clean end of stream.
IoFailurePropagation ==
    /\ \A i \in Reads : rresults[i].failed => rresults[i].kind = ReadFailure
    /\ \A i \in Writes : wresults[i].failed => wresults[i].outcome = "io_error"

\* none of the first i read_frame calls had its read of the socket fail
NoReadFailure(i) == \A j \in 1..i : ~rresults[j].failed

\* C12 (read ordering): whatever the deliveries the bytes of a stream of units arrive
\* in, the i-th read_frame call returns the i-th unit sent, each unit once.
ReadOrdering ==
    \A i \in Reads :
        (i <= Len(sentUnits) /\ NoReadFailure(i)) =>
            /\ rresults[i].kind = "frame"
            /\ rresults[i].frame = sentUnits[i]

\* the frames the write_frame calls made so far were given, in call order
RECURSIVE FramesWritten(_)
FramesWritten(ws) ==
    IF ws = <<>> THEN <<>> ELSE Append(FramesWritten(Take(ws, Len(ws) - 1)), ws[Len(ws)].frame)

\* C13 (write ordering): after write_frame calls that all returned Ok, none being
\* under way, the bytes the underlying stream received are the encodings of their
\* frames, one after another in call order.
WriteOrdering ==
    (wcall.pc = "idle" /\ \A i \in Writes : wresults[i].outcome = "ok") =>
        wire = EncodeAll(FramesWritten(wresults))

\* C14 (cursor within the buffer): in every state the cursor is at most the length
\* of the buffer (so at most its allocation), the slice buffer[cursor..] the read
\* writes into is defined, and no call has panicked on it.
CursorWithinBuffer ==
    /\ cursor <= Len(buffer)
    /\ Len(buffer) <= capacity
    /\ \A i \in Reads : rresults[i].kind # "panic"

\* C14's case: read_frame calls have run their capacity step and their reads on a
\* connection the peer delivered a whole large unit to
CursorWithinBufferReached ==
    /\ Len(rresults) = MaxReads
    /\ sentUnits # <<>> /\ sentUnits[1] = BigUnit
    /\ nsent = Len(stream)
    /\ \A i \in Reads : rresults[i].n = 0

\* C15 (capacity before every read): at every read read_frame awaits, the first one
\* on a new connection included, the destination buffer[cursor..] is not empty.
SpareCapacityBeforeRead ==
    rpc = "reading" => cursor < Len(buffer)

\* C19 (clean end of stream only on a real close): read_frame returns Ok(None) only
\* when the peer has closed and no delivered byte is left unconsumed; so not on the
\* first call of a connection whose open peer sent a complete unit.
CleanEofOnlyOnClose ==
    \A i \in Reads :
        rresults[i].kind = "eof" =>
            /\ rresults[i].closed
            /\ Avail(i) = "empty"

\* what a read_frame call may return
ReadOutcomes == {"frame", "eof", "parse_error", "reset", ReadFailure}

\* C20 (termination of the read loop): when every read that can complete does and
\* the peer delivers its bytes and closes, every read_frame call returns, and with a
\* unit, the clean end of stream, a parse error, the reset error or an I/O error.
ReadTerminates ==
    /\ (rpc = "reading") ~> (rpc = "idle")
    /\ [](\A i \in Reads : rresults[i].kind \in ReadOutcomes)

\* C20's case: calls awaited their read with the peer open and returned
ReadTerminatesReached ==
    /\ rpc = "idle"
    /\ Len(rresults) = MaxReads
    /\ \A i \in Reads : rresults[i].n = 0 /\ ~rresults[i].closed

====
